---- MODULE Spec2Model ----
(***************************************************************************)
(* A model of pyadt: the Maybe type (src/pyadt/maybe.py) and the Result    *)
(* type (src/pyadt/result.py).                                             *)
(*                                                                         *)
(* Python objects are records [cls, n, s, fields]: cls is the class name,  *)
(* n the integer value of an int (or the identity of an exception object), *)
(* s the text of a str (or of an exception's message), and fields the      *)
(* tuple of dataclass fields.  Two dataclass instances are equal when      *)
(* their classes and their field tuples are equal, which is record         *)
(* equality here; exception objects compare by identity (n).               *)
(*                                                                         *)
(* A method call yields [out, calls]: out is the outcome (a returned       *)
(* object, or a raised exception with its __cause__), calls the sequence   *)
(* of callback invocations the method made, in order.                      *)
(***************************************************************************)
EXTENDS Integers, Sequences, FiniteSets, TLC

VARIABLES cur, last, origin, onlyMap, nmaps

vars == <<cur, last, origin, onlyMap, nmaps>>

----------------------------------------------------------------------------
(* Bounds of the model *)

\* ints held by containers are 0..MaxInt
MaxInt == 1
\* distinct exception objects the caller creates
MaxExcId == 2
\* the count of consecutive Result.map calls saturates here
MaxMaps == 2

----------------------------------------------------------------------------
(* Python values *)

Obj(c, i, t, f) == [cls |-> c, n |-> i, s |-> t, fields |-> f]

None == Obj("NoneType", 0, "", <<>>)
PyInt(i) == Obj("int", i, "", <<>>)
PyStr(t) == Obj("str", 0, t, <<>>)
PyTrue == Obj("bool", 1, "", <<>>)
PyFalse == Obj("bool", 0, "", <<>>)
\* Exception(t), the object with identity i
Exc(i, t) == Obj("Exception", i, t, <<>>)

\* bool(x) for the values a message or a fallback can be
Truthy(x) ==
    CASE x.cls = "NoneType" -> FALSE
      [] x.cls = "int" -> x.n # 0
      [] x.cls = "str" -> x.s # ""
      [] x.cls \in {"Nothing", "Error"} -> FALSE
      [] OTHER -> TRUE

\* isinstance(x, Exception)
IsException(x) == x.cls \in {"Exception", "UnwrapError", "ErrorWrapper", "EmptyMaybeError",
                             "AttributeError", "NotImplementedError"}

\* the exception classes: cls(arg), an instance whose args are (arg,)
UnwrapError(msg) == Obj("UnwrapError", 0, "", <<msg>>)
ErrorWrapper(held) == Obj("ErrorWrapper", 0, "", <<held>>)
EmptyMaybeError(msg) == Obj("EmptyMaybeError", 0, "", <<msg>>)

\* the dataclasses: the generated __init__ stores the one field; Nothing has none
Something(v) == Obj("Something", 0, "", <<v>>)
Nothing == Obj("Nothing", 0, "", <<>>)
Success(v) == Obj("Success", 0, "", <<v>>)
Error(e) == Obj("Error", 0, "", <<e>>)

\* self._held
Held(self) == self.fields[1]

----------------------------------------------------------------------------
(* Callbacks the caller passes: the ones the tests pass, as total functions *)

Digits == <<"0", "1", "2", "3", "4", "5", "6", "7", "8", "9">>

\* str(x)
StrOf(x) ==
    CASE x.cls = "int" -> PyStr(Digits[x.n + 1])
      [] x.cls = "str" -> x
      [] x.cls = "NoneType" -> PyStr("None")
      [] OTHER -> PyStr(x.s)

\* T -> U
Transforms == {"ident", "str", "const_bar"}
\* () -> U
Producers == {"mk_foo", "mk_2"}
\* T -> Maybe[U] and () -> Maybe[T]
MaybeTransforms == {"some_str", "to_nothing"}
MaybeProducers == {"mk_something", "mk_nothing"}
\* T -> Result[U, E]
ResultTransforms == {"success_str", "error_str"}
\* functions returning T | None, as the callers of wrap_maybe have them: two
\* that take no argument and one that returns its argument
OptionalProducers == {"mk_none", "mk_foo"}
OptionalTransforms == {"ident"}
\* the name that stands for "no callback passed in this position"
NoCb == "-"

\* cb(*args)
Apply(cb, args) ==
    CASE cb = "ident" -> args[1]
      [] cb = "str" -> StrOf(args[1])
      [] cb = "const_bar" -> PyStr("bar")
      [] cb = "mk_foo" -> PyStr("foo")
      [] cb = "mk_2" -> PyStr("2")
      [] cb = "mk_none" -> None
      [] cb = "some_str" -> Something(StrOf(args[1]))
      [] cb = "to_nothing" -> Nothing
      [] cb = "mk_something" -> Something(PyStr("foo"))
      [] cb = "mk_nothing" -> Nothing
      [] cb = "success_str" -> Success(StrOf(args[1]))
      [] cb = "error_str" -> Error(StrOf(args[1]))

\* one invocation of a callback: its value, and the record of the invocation
Call(cb, args) == [val |-> Apply(cb, args), calls |-> <<[cb |-> cb, args |-> args]>>]

----------------------------------------------------------------------------
(* Outcomes of a method call *)

Return(v) == [kind |-> "return", val |-> v, cause |-> None]
\* raise e from c (c is None for a bare raise)
Raise(e, c) == [kind |-> "raise", val |-> e, cause |-> c]

Done(o, cs) == [out |-> o, calls |-> cs]

----------------------------------------------------------------------------
(* class Something (maybe.py) *)

Something_is_something(self) == Done(Return(PyTrue), <<>>)

Something_is_nothing(self) == Done(Return(PyFalse), <<>>)

\* Something.map as it would be if it returned the held value untransformed
Something_map_unapplied(self, cb) == Done(Return(Something(Held(self))), <<>>)

Something_map(self, cb) ==
    LET c == Call(cb, <<Held(self)>>) IN Done(Return(Something(c.val)), c.calls)

Something_map_or(self, cb, fallback) ==
    LET c == Call(cb, <<Held(self)>>) IN Done(Return(Something(c.val)), c.calls)

Something_map_or_else(self, cb, fallback) ==
    LET c == Call(cb, <<Held(self)>>) IN Done(Return(Something(c.val)), c.calls)

Something_get(self, fallback) == Done(Return(Held(self)), <<>>)

Something_unwrap(self, msg) == Done(Return(Held(self)), <<>>)

Something_unwrap_or(self, fallback) == Done(Return(Held(self)), <<>>)

Something_unwrap_or_else(self, fallback) == Done(Return(Held(self)), <<>>)

Something_and_then(self, cb) ==
    LET c == Call(cb, <<Held(self)>>) IN Done(Return(c.val), c.calls)

Something_or_else(self, fallback) == Done(Return(self), <<>>)

\* Something.ok_or as it would be if it wrapped the err argument
Something_ok_or_err(self, err) == Done(Return(Success(err)), <<>>)

Something_ok_or(self, err) == Done(Return(Success(Held(self))), <<>>)

Something_ok_or_else(self, err) == Done(Return(Success(Held(self))), <<>>)

----------------------------------------------------------------------------
(* class Nothing (maybe.py) *)

Nothing_is_something(self) == Done(Return(PyFalse), <<>>)

Nothing_is_nothing(self) == Done(Return(PyTrue), <<>>)

Nothing_map(self, cb) == Done(Return(Nothing), <<>>)

\* Nothing.map_or as it would be if it returned the fallback unwrapped
Nothing_map_or_bare(self, cb, fallback) == Done(Return(fallback), <<>>)

Nothing_map_or(self, cb, fallback) == Done(Return(Something(fallback)), <<>>)

Nothing_map_or_else(self, cb, fallback) ==
    LET c == Call(fallback, <<>>) IN Done(Return(Something(c.val)), c.calls)

\* Nothing.get as it would be if it raised when no fallback is given
Nothing_get_raises(self, fallback) ==
    IF fallback = None
    THEN Done(Raise(EmptyMaybeError(PyStr("Attempted to get Nothing")), None), <<>>)
    ELSE Done(Return(fallback), <<>>)

Nothing_get(self, fallback) == Done(Return(fallback), <<>>)

\* Nothing.unwrap as it would be with `msg or default` for `if msg is None`
Nothing_unwrap_falsy(self, msg) ==
    LET m == IF Truthy(msg) THEN msg ELSE PyStr("Attempted to unwrap Nothing")
    IN  Done(Raise(EmptyMaybeError(m), None), <<>>)

Nothing_unwrap(self, msg) ==
    LET m == IF msg = None THEN PyStr("Attempted to unwrap Nothing") ELSE msg
    IN  Done(Raise(EmptyMaybeError(m), None), <<>>)

Nothing_unwrap_or(self, fallback) == Done(Return(fallback), <<>>)

Nothing_unwrap_or_else(self, fallback) ==
    LET c == Call(fallback, <<>>) IN Done(Return(c.val), c.calls)

Nothing_and_then(self, cb) == Done(Return(Nothing), <<>>)

Nothing_or_else(self, fallback) ==
    LET c == Call(fallback, <<>>) IN Done(Return(c.val), c.calls)

Nothing_ok_or(self, err) == Done(Return(Error(err)), <<>>)

Nothing_ok_or_else(self, err) ==
    LET c == Call(err, <<>>) IN Done(Return(Error(c.val)), c.calls)

----------------------------------------------------------------------------
(* class Error (result.py) *)

Error_is_ok(self) == Done(Return(PyFalse), <<>>)

Error_is_err(self) == Done(Return(PyTrue), <<>>)

Error_unwrap(self, msg) ==
    LET e == IF IsException(Held(self)) THEN Held(self) ELSE ErrorWrapper(Held(self))
        m == IF Truthy(msg) THEN msg ELSE PyStr("Attempted to unwrap an Error")
    IN  Done(Raise(UnwrapError(m), e), <<>>)

Error_unwrap_or(self, fallback) == Done(Return(fallback), <<>>)

Error_unwrap_or_else(self, fallback) ==
    LET c == Call(fallback, <<>>) IN Done(Return(c.val), c.calls)

Error_unwrap_err(self, msg) == Done(Return(Held(self)), <<>>)

\* Error.map as it would be if it applied the callback to the held error
Error_map_applies(self, cb) ==
    LET c == Call(cb, <<Held(self)>>) IN Done(Return(Error(c.val)), c.calls)

Error_map(self, cb) == Done(Return(Error(Held(self))), <<>>)

Error_map_err(self, cb) ==
    LET c == Call(cb, <<Held(self)>>) IN Done(Return(Error(c.val)), c.calls)

Error_map_or(self, default, cb) == Done(Return(default), <<>>)

Error_map_or_else(self, default, cb) ==
    LET c == Call(default, <<>>) IN Done(Return(c.val), c.calls)

----------------------------------------------------------------------------
(* class Success (result.py) *)

Success_is_ok(self) == Done(Return(PyTrue), <<>>)

Success_is_err(self) == Done(Return(PyFalse), <<>>)

Success_unwrap(self, msg) == Done(Return(Held(self)), <<>>)

Success_unwrap_or(self, fallback) == Done(Return(Held(self)), <<>>)

Success_unwrap_or_else(self, fallback) == Done(Return(Held(self)), <<>>)

\* Success.unwrap_err as it would be with `msg or default` for `if msg is None`
Success_unwrap_err_falsy(self, msg) ==
    LET m == IF Truthy(msg) THEN msg
             ELSE PyStr("Attempted to unwrap the error from a Success")
    IN  Done(Raise(UnwrapError(m), None), <<>>)

Success_unwrap_err(self, msg) ==
    LET m == IF msg = None THEN PyStr("Attempted to unwrap the error from a Success") ELSE msg
    IN  Done(Raise(UnwrapError(m), None), <<>>)

Success_map(self, cb) ==
    LET c == Call(cb, <<Held(self)>>) IN Done(Return(Success(c.val)), c.calls)

\* Success.map_err as it would be with the body of Error.map
Success_map_err_as_error(self, cb) == Done(Return(Error(Held(self))), <<>>)

Success_map_err(self, cb) == Done(Return(Success(Held(self))), <<>>)

Success_map_or(self, default, cb) ==
    LET c == Call(cb, <<Held(self)>>) IN Done(Return(c.val), c.calls)

Success_map_or_else(self, default, cb) ==
    LET c == Call(cb, <<Held(self)>>) IN Done(Return(c.val), c.calls)

----------------------------------------------------------------------------
(* Module functions (maybe.py) *)

\* maybe as it would be with `if not result` for `if result is None`
maybe_falsy(result) == IF Truthy(result) THEN Something(result) ELSE Nothing

maybe(result) == IF result = None THEN Nothing ELSE Something(result)

\* the function wrap_maybe(f) returns, called with args
wrap_maybe_inner(f, args) ==
    LET c == Call(f, args) IN Done(Return(maybe(c.val)), c.calls)

----------------------------------------------------------------------------
(* Attribute lookup and method dispatch *)

MaybeAttrs == {"is_something", "is_nothing", "map", "map_or", "map_or_else", "get",
               "unwrap", "unwrap_or", "unwrap_or_else", "and_then", "or_else",
               "ok_or", "ok_or_else"}

ResultAttrs == {"is_ok", "is_err", "unwrap", "unwrap_or", "unwrap_or_else",
                "unwrap_err", "map", "map_err", "map_or", "map_or_else"}

\* the names a class body defines
ClassAttrs(c) ==
    CASE c = "Maybe" -> MaybeAttrs
      [] c = "Something" -> MaybeAttrs \cup {"__bool__"}
      [] c = "Nothing" -> MaybeAttrs \cup {"__bool__"}
      [] c = "Result" -> ResultAttrs
      [] c = "Error" -> ResultAttrs \cup {"__bool__"}
      [] c = "Success" -> ResultAttrs \cup {"__bool__"}
      [] OTHER -> {}

\* the classes searched for an attribute, in order
MRO(c) ==
    CASE c \in {"Something", "Nothing"} -> <<c, "Maybe">>
      [] c \in {"Error", "Success"} -> <<c, "Result">>
      [] OTHER -> <<c>>

NoOwner == ""

\* the first class among the classes cs, in order, that defines name
FirstOwner(cs, name) ==
    IF \A i \in 1..Len(cs) : name \notin ClassAttrs(cs[i]) THEN NoOwner
    ELSE cs[CHOOSE i \in 1..Len(cs) :
                /\ name \in ClassAttrs(cs[i])
                /\ \A j \in 1..(i - 1) : name \notin ClassAttrs(cs[j])]

\* the first class of the MRO that defines name, NoOwner when none does
Lookup(c, name) == FirstOwner(MRO(c), name)

\* what getattr raises when no class of the MRO defines name
AttributeError(self, name) == Obj("AttributeError", 0, name, <<>>)

\* the body of every method of the base classes Maybe and Result
NotImplementedError == Obj("NotImplementedError", 0, "", <<>>)

IsMaybe(x) == x.cls \in {"Something", "Nothing"}
IsResult(x) == x.cls \in {"Success", "Error"}
IsContainer(x) == IsMaybe(x) \/ IsResult(x)

\* the arguments of a call: a transforming callback, a producer, a plain value
Args(cb, fn, arg) == [cb |-> cb, fn |-> fn, arg |-> arg]

InvokeSomething(self, name, a) ==
    CASE name = "is_something" -> Something_is_something(self)
      [] name = "is_nothing" -> Something_is_nothing(self)
      [] name = "map" -> Something_map(self, a.cb)
      [] name = "map_or" -> Something_map_or(self, a.cb, a.arg)
      [] name = "map_or_else" -> Something_map_or_else(self, a.cb, a.fn)
      [] name = "get" -> Something_get(self, a.arg)
      [] name = "unwrap" -> Something_unwrap(self, a.arg)
      [] name = "unwrap_or" -> Something_unwrap_or(self, a.arg)
      [] name = "unwrap_or_else" -> Something_unwrap_or_else(self, a.fn)
      [] name = "and_then" -> Something_and_then(self, a.cb)
      [] name = "or_else" -> Something_or_else(self, a.fn)
      [] name = "ok_or" -> Something_ok_or(self, a.arg)
      [] name = "ok_or_else" -> Something_ok_or_else(self, a.fn)

InvokeNothing(self, name, a) ==
    CASE name = "is_something" -> Nothing_is_something(self)
      [] name = "is_nothing" -> Nothing_is_nothing(self)
      [] name = "map" -> Nothing_map(self, a.cb)
      [] name = "map_or" -> Nothing_map_or(self, a.cb, a.arg)
      [] name = "map_or_else" -> Nothing_map_or_else(self, a.cb, a.fn)
      [] name = "get" -> Nothing_get(self, a.arg)
      [] name = "unwrap" -> Nothing_unwrap(self, a.arg)
      [] name = "unwrap_or" -> Nothing_unwrap_or(self, a.arg)
      [] name = "unwrap_or_else" -> Nothing_unwrap_or_else(self, a.fn)
      [] name = "and_then" -> Nothing_and_then(self, a.cb)
      [] name = "or_else" -> Nothing_or_else(self, a.fn)
      [] name = "ok_or" -> Nothing_ok_or(self, a.arg)
      [] name = "ok_or_else" -> Nothing_ok_or_else(self, a.fn)

InvokeError(self, name, a) ==
    CASE name = "is_ok" -> Error_is_ok(self)
      [] name = "is_err" -> Error_is_err(self)
      [] name = "unwrap" -> Error_unwrap(self, a.arg)
      [] name = "unwrap_or" -> Error_unwrap_or(self, a.arg)
      [] name = "unwrap_or_else" -> Error_unwrap_or_else(self, a.fn)
      [] name = "unwrap_err" -> Error_unwrap_err(self, a.arg)
      [] name = "map" -> Error_map(self, a.cb)
      [] name = "map_err" -> Error_map_err(self, a.cb)
      [] name = "map_or" -> Error_map_or(self, a.arg, a.cb)
      [] name = "map_or_else" -> Error_map_or_else(self, a.fn, a.cb)

InvokeSuccess(self, name, a) ==
    CASE name = "is_ok" -> Success_is_ok(self)
      [] name = "is_err" -> Success_is_err(self)
      [] name = "unwrap" -> Success_unwrap(self, a.arg)
      [] name = "unwrap_or" -> Success_unwrap_or(self, a.arg)
      [] name = "unwrap_or_else" -> Success_unwrap_or_else(self, a.fn)
      [] name = "unwrap_err" -> Success_unwrap_err(self, a.arg)
      [] name = "map" -> Success_map(self, a.cb)
      [] name = "map_err" -> Success_map_err(self, a.cb)
      [] name = "map_or" -> Success_map_or(self, a.arg, a.cb)
      [] name = "map_or_else" -> Success_map_or_else(self, a.fn, a.cb)

\* the call of self.name once the attribute is found on class owner
Dispatch(owner, self, name, a) ==
    CASE owner = NoOwner -> Done(Raise(AttributeError(self, name), None), <<>>)
      [] owner \in {"Maybe", "Result"} -> Done(Raise(NotImplementedError, None), <<>>)
      [] owner = "Something" -> InvokeSomething(self, name, a)
      [] owner = "Nothing" -> InvokeNothing(self, name, a)
      [] owner = "Error" -> InvokeError(self, name, a)
      [] owner = "Success" -> InvokeSuccess(self, name, a)

\* self.name(...): the attribute is looked up along the MRO, then called
Invoke(self, name, a) == Dispatch(Lookup(self.cls, name), self, name, a)

----------------------------------------------------------------------------
(* The caller: it constructs a container and calls methods on the one it   *)
(* holds; a call that returns a container leaves the caller holding that.  *)
(*   cur      the container the caller holds                               *)
(*   last     the last call: receiver, arguments, outcome, callbacks run   *)
(*   origin   the container as the caller constructed it                   *)
(*   onlyMap  every container-returning call since then was Result.map     *)
(*   nmaps    how many of those there were (saturating at MaxMaps)         *)

Ints == {PyInt(i) : i \in 0..MaxInt}
Excs == {Exc(i, "foo") : i \in 1..MaxExcId}
\* what a container is constructed with
Payloads == {None, PyStr("foo")} \cup Ints \cup Excs
\* msg: str | None
Msgs == {None, PyStr(""), PyStr("test message")}
\* fallback and default values
Fallbacks == {None, PyInt(0), PyStr("bar")}

Constructible ==
    {Nothing} \cup {Something(v) : v \in Payloads}
              \cup {Success(v) : v \in Payloads} \cup {Error(v) : v \in Payloads}

Min(a, b) == IF a < b THEN a ELSE b

Record(name, self, a, r) ==
    [op |-> name, recv |-> self, cb |-> a.cb, fn |-> a.fn, arg |-> a.arg,
     out |-> r.out, calls |-> r.calls]

Init ==
    /\ cur \in Constructible
    /\ last = Record("new", cur, Args(NoCb, NoCb, None), Done(Return(cur), <<>>))
    /\ origin = cur
    /\ onlyMap = TRUE
    /\ nmaps = 0

New ==
    \E c \in Constructible :
        /\ cur' = c
        /\ last' = Record("new", c, Args(NoCb, NoCb, None), Done(Return(c), <<>>))
        /\ origin' = c
        /\ onlyMap' = TRUE
        /\ nmaps' = 0

\* the caller's state after cur.name(...) with the arguments a gave r
Commit(name, a, r, chained, isMap) ==
    /\ last' = Record(name, cur, a, r)
    /\ cur' = IF chained THEN r.out.val ELSE cur
    /\ onlyMap' = IF chained THEN onlyMap /\ isMap ELSE onlyMap
    /\ nmaps' = IF ~chained THEN nmaps
                ELSE IF onlyMap /\ isMap THEN Min(nmaps + 1, MaxMaps) ELSE 0
    /\ UNCHANGED origin

Chained(r) == r.out.kind = "return" /\ IsContainer(r.out.val)

Settle(name, a, r) == Commit(name, a, r, Chained(r), name = "map" /\ IsResult(cur))

\* cur.name(...) with the arguments a
Step(name, a) == Settle(name, a, Invoke(cur, name, a))

(* calls on a Maybe *)
MaybeIsSomething == IsMaybe(cur) /\ Step("is_something", Args(NoCb, NoCb, None))
MaybeIsNothing == IsMaybe(cur) /\ Step("is_nothing", Args(NoCb, NoCb, None))
MaybeMap == IsMaybe(cur) /\ \E cb \in Transforms : Step("map", Args(cb, NoCb, None))
MaybeMapOr ==
    IsMaybe(cur) /\ \E cb \in Transforms, fb \in Fallbacks : Step("map_or", Args(cb, NoCb, fb))
MaybeMapOrElse ==
    IsMaybe(cur) /\ \E cb \in Transforms, fn \in Producers : Step("map_or_else", Args(cb, fn, None))
MaybeGet == IsMaybe(cur) /\ \E fb \in Fallbacks : Step("get", Args(NoCb, NoCb, fb))
MaybeUnwrap == IsMaybe(cur) /\ \E msg \in Msgs : Step("unwrap", Args(NoCb, NoCb, msg))
MaybeUnwrapOr == IsMaybe(cur) /\ \E fb \in Fallbacks : Step("unwrap_or", Args(NoCb, NoCb, fb))
MaybeUnwrapOrElse ==
    IsMaybe(cur) /\ \E fn \in Producers : Step("unwrap_or_else", Args(NoCb, fn, None))
MaybeAndThen ==
    IsMaybe(cur) /\ \E cb \in MaybeTransforms : Step("and_then", Args(cb, NoCb, None))
MaybeOrElse ==
    IsMaybe(cur) /\ \E fn \in MaybeProducers : Step("or_else", Args(NoCb, fn, None))
MaybeOkOr == IsMaybe(cur) /\ \E err \in Payloads : Step("ok_or", Args(NoCb, NoCb, err))
MaybeOkOrElse ==
    IsMaybe(cur) /\ \E fn \in Producers : Step("ok_or_else", Args(NoCb, fn, None))

(* calls on a Result *)
ResultIsOk == IsResult(cur) /\ Step("is_ok", Args(NoCb, NoCb, None))
ResultIsErr == IsResult(cur) /\ Step("is_err", Args(NoCb, NoCb, None))
ResultUnwrap == IsResult(cur) /\ \E msg \in Msgs : Step("unwrap", Args(NoCb, NoCb, msg))
ResultUnwrapOr == IsResult(cur) /\ \E fb \in Fallbacks : Step("unwrap_or", Args(NoCb, NoCb, fb))
ResultUnwrapOrElse ==
    IsResult(cur) /\ \E fn \in Producers : Step("unwrap_or_else", Args(NoCb, fn, None))
ResultUnwrapErr == IsResult(cur) /\ \E msg \in Msgs : Step("unwrap_err", Args(NoCb, NoCb, msg))
ResultMap == IsResult(cur) /\ \E cb \in Transforms : Step("map", Args(cb, NoCb, None))
ResultMapErr == IsResult(cur) /\ \E cb \in Transforms : Step("map_err", Args(cb, NoCb, None))
ResultMapOr ==
    IsResult(cur) /\ \E cb \in Transforms, fb \in Fallbacks : Step("map_or", Args(cb, NoCb, fb))
ResultMapOrElse ==
    IsResult(cur) /\ \E cb \in Transforms, fn \in Producers : Step("map_or_else", Args(cb, fn, None))
ResultAndThen ==
    IsResult(cur) /\ \E cb \in ResultTransforms : Step("and_then", Args(cb, NoCb, None))
ResultOrElse ==
    IsResult(cur) /\ \E cb \in ResultTransforms : Step("or_else", Args(cb, NoCb, None))
ResultOk == IsResult(cur) /\ Step("ok", Args(NoCb, NoCb, None))
ResultErr == IsResult(cur) /\ Step("err", Args(NoCb, NoCb, None))

(* calls of the module functions: a container they return is a new one *)
FreeCommit(name, a, r, made) ==
    /\ last' = Record(name, None, a, r)
    /\ cur' = IF made THEN r.out.val ELSE cur
    /\ origin' = IF made THEN r.out.val ELSE origin
    /\ onlyMap' = IF made THEN TRUE ELSE onlyMap
    /\ nmaps' = IF made THEN 0 ELSE nmaps

Free(name, a, r) == FreeCommit(name, a, r, Chained(r))

\* maybe(x)
CallMaybe ==
    \E x \in Payloads : Free("maybe", Args(NoCb, NoCb, x), Done(Return(maybe(x)), <<>>))

\* wrap_maybe(f)(): f takes no argument
CallWrapped0 ==
    \E f \in OptionalProducers :
        Free("wrap_maybe", Args(NoCb, f, None), wrap_maybe_inner(f, <<>>))

\* wrap_maybe(f)(x): f takes one argument
CallWrapped1 ==
    \E f \in OptionalTransforms, x \in Payloads :
        Free("wrap_maybe", Args(f, NoCb, x), wrap_maybe_inner(f, <<x>>))

Next ==
    \/ New
    \/ CallMaybe \/ CallWrapped0 \/ CallWrapped1
    \/ MaybeIsSomething \/ MaybeIsNothing \/ MaybeMap \/ MaybeMapOr \/ MaybeMapOrElse
    \/ MaybeGet \/ MaybeUnwrap \/ MaybeUnwrapOr \/ MaybeUnwrapOrElse
    \/ MaybeAndThen \/ MaybeOrElse \/ MaybeOkOr \/ MaybeOkOrElse
    \/ ResultIsOk \/ ResultIsErr \/ ResultUnwrap \/ ResultUnwrapOr \/ ResultUnwrapOrElse
    \/ ResultUnwrapErr \/ ResultMap \/ ResultMapErr \/ ResultMapOr \/ ResultMapOrElse
    \/ ResultAndThen \/ ResultOrElse \/ ResultOk \/ ResultErr

Spec == Init /\ [][Next]_vars

----------------------------------------------------------------------------
(* Properties *)

\* the last call was self.op(...) on an instance of class c
LastIs(op, c) == last.op = op /\ last.recv.cls = c

\* the value the receiver of the last call holds
LastHeld == Held(last.recv)

\* the outcome of calling name with no arguments on what the last call returned
Then(name) == Invoke(last.out.val, name, Args(NoCb, NoCb, None)).out

\* C1: the conversions of a Result to a Maybe round-trip: Success(v).ok().unwrap()
\* returns v, Error(e).err().unwrap() returns e, and Success(v).err() and
\* Error(e).ok() are Nothing (is_nothing() is true).
C1_RoundTrip ==
    /\ LastIs("ok", "Success") =>
          /\ last.out = Return(Something(LastHeld))
          /\ Then("unwrap") = Return(LastHeld)
    /\ LastIs("err", "Error") =>
          /\ last.out = Return(Something(LastHeld))
          /\ Then("unwrap") = Return(LastHeld)
    /\ LastIs("err", "Success") =>
          /\ last.out = Return(Nothing)
          /\ Then("is_nothing") = Return(PyTrue)
    /\ LastIs("ok", "Error") =>
          /\ last.out = Return(Nothing)
          /\ Then("is_nothing") = Return(PyTrue)

\* C2: Result.and_then and Result.or_else short-circuit: Error(e).and_then(f) is
\* Error(e) and Success(v).or_else(f) is Success(v), f not being invoked; and
\* Success(v).and_then(f) is f(v), Error(e).or_else(f) is f(e).
C2_ShortCircuit ==
    /\ LastIs("and_then", "Error") => last.out = Return(last.recv) /\ last.calls = <<>>
    /\ LastIs("or_else", "Success") => last.out = Return(last.recv) /\ last.calls = <<>>
    /\ LastIs("and_then", "Success") => last.out = Return(Apply(last.cb, <<LastHeld>>))
    /\ LastIs("or_else", "Error") => last.out = Return(Apply(last.cb, <<LastHeld>>))

\* C3: Error(e).unwrap(msg) raises UnwrapError; its message is msg whenever a
\* message is supplied (any string) and 'Attempted to unwrap an Error' when none
\* is; its cause is e when e is an exception, otherwise an ErrorWrapper carrying
\* e. Success(v).unwrap(msg) returns v.
C3_ResultUnwrap ==
    /\ LastIs("unwrap", "Error") =>
          /\ last.out.kind = "raise"
          /\ last.out.val = UnwrapError(IF last.arg = None
                                        THEN PyStr("Attempted to unwrap an Error")
                                        ELSE last.arg)
          /\ last.out.cause = IF IsException(LastHeld) THEN LastHeld
                              ELSE ErrorWrapper(LastHeld)
    /\ LastIs("unwrap", "Success") => last.out = Return(LastHeld)

\* C4: Nothing().unwrap(msg) raises EmptyMaybeError whose message is 'Attempted to
\* unwrap Nothing' when no message is given and the supplied message otherwise;
\* Something(v).unwrap(msg) returns v.
C4_MaybeUnwrap ==
    /\ LastIs("unwrap", "Nothing") =>
          last.out = Raise(EmptyMaybeError(IF last.arg = None
                                           THEN PyStr("Attempted to unwrap Nothing")
                                           ELSE last.arg), None)
    /\ LastIs("unwrap", "Something") => last.out = Return(LastHeld)

\* C4's case: Nothing().unwrap('') was called, with a supplied but empty message
C4_Witness ==
    /\ LastIs("unwrap", "Nothing")
    /\ last.arg = PyStr("")
    /\ last.out.kind = "raise"

\* C5: Something(v).get(fallback) returns v whatever the fallback; Nothing().get(
\* fallback) returns the fallback; Nothing().get() returns None and does not raise.
C5_MaybeGet ==
    /\ LastIs("get", "Something") => last.out = Return(LastHeld)
    /\ LastIs("get", "Nothing") => last.out = Return(last.arg)
    /\ LastIs("get", "Nothing") /\ last.arg = None => last.out = Return(None)

C5_Witness == LastIs("get", "Nothing") /\ last.arg = None /\ last.out.kind = "return"

\* C6: Success(v).unwrap_err(msg) raises UnwrapError whose message is 'Attempted to
\* unwrap the error from a Success' when no message is given and the supplied
\* message otherwise; Error(e).unwrap_err(msg) returns the payload e itself.
C6_UnwrapErr ==
    /\ LastIs("unwrap_err", "Success") =>
          last.out = Raise(UnwrapError(IF last.arg = None
                           THEN PyStr("Attempted to unwrap the error from a Success")
                           ELSE last.arg), None)
    /\ LastIs("unwrap_err", "Error") => last.out = Return(LastHeld)

C6_Witness ==
    /\ LastIs("unwrap_err", "Success")
    /\ last.arg = PyStr("")
    /\ last.out.kind = "raise"

\* C7: Something(v).map(f) equals Something(f(v)); Nothing().map(f) equals
\* Nothing() and f is not invoked.
C7_MaybeMap ==
    /\ LastIs("map", "Something") =>
          last.out = Return(Something(Apply(last.cb, <<LastHeld>>)))
    /\ LastIs("map", "Nothing") => last.out = Return(Nothing) /\ last.calls = <<>>

C7_Witness ==
    /\ LastIs("map", "Something")
    /\ last.cb = "str"
    /\ LastHeld \in Ints
    /\ last.out.val # last.recv

\* C8: Something(v).ok_or(err) equals Success(v) and Nothing().ok_or(err) equals
\* Error(err); Something(v).ok_or_else(err_fn) equals Success(v) and
\* Nothing().ok_or_else(err_fn) equals Error(err_fn()).
C8_OkOr ==
    /\ LastIs("ok_or", "Something") => last.out = Return(Success(LastHeld))
    /\ LastIs("ok_or", "Nothing") => last.out = Return(Error(last.arg))
    /\ LastIs("ok_or_else", "Something") => last.out = Return(Success(LastHeld))
    /\ LastIs("ok_or_else", "Nothing") => last.out = Return(Error(Apply(last.fn, <<>>)))

C8_Witness ==
    /\ LastIs("ok_or", "Nothing")
    /\ last.arg \in Excs
    /\ cur = Error(last.arg)

\* the callbacks a combinator call is to invoke, in order: the transforming
\* callback on the variant that holds its input, the producer on the variant that
\* needs the fallback, nothing otherwise
Uses(op, self, a) ==
    LET one(f) == <<[cb |-> f, args |-> <<Held(self)>>]>>
        make(f) == <<[cb |-> f, args |-> <<>>]>>
    IN  CASE self.cls = "Something" /\ op \in {"map", "map_or", "map_or_else", "and_then"}
                -> one(a.cb)
          [] self.cls = "Nothing" /\ op \in {"map_or_else", "unwrap_or_else", "or_else",
                                             "ok_or_else"} -> make(a.fn)
          [] self.cls = "Success" /\ op \in {"map", "map_or", "map_or_else", "and_then"}
                -> one(a.cb)
          [] self.cls = "Error" /\ op \in {"map_err", "or_else"} -> one(a.cb)
          [] self.cls = "Error" /\ op \in {"map_or_else", "unwrap_or_else"} -> make(a.fn)
          [] OTHER -> <<>>

\* C9: in every combinator call on a Maybe or a Result each callback is invoked at
\* most once, and exactly when the active variant's result uses it: never the
\* transforming callback on the variant that does not hold its input, never the
\* producer on Something or Success.
C9_CallbackDiscipline ==
    IsContainer(last.recv) /\ last.op # "new" =>
        last.calls = Uses(last.op, last.recv, last)

\* C10: the failure payload is retained until map_err transforms it: after any
\* sequence of map calls on Error(e) the caller still holds Error(e) and
\* unwrap_err returns e; Error(e).map_err(f) equals Error(f(e)); and
\* Success(v).map_err(f) equals Success(v).
C10_ErrorRetained ==
    /\ onlyMap /\ origin.cls = "Error" =>
          /\ cur = origin
          /\ last.op = "map" => last.out = Return(origin)
          /\ last.op = "unwrap_err" => last.out = Return(Held(origin))
    /\ LastIs("map_err", "Error") => last.out = Return(Error(Apply(last.cb, <<LastHeld>>)))
    /\ LastIs("map_err", "Success") => last.out = Return(last.recv)

\* C10's case: MaxMaps or more map calls, each with a callback that would change
\* an int payload, were made on an Error holding an int
C10_Witness ==
    /\ onlyMap
    /\ origin \in {Error(v) : v \in Ints}
    /\ nmaps = MaxMaps
    /\ LastIs("map", "Error")
    /\ last.cb = "str"

\* the function the last wrap_maybe call adapted, and the arguments of the call
WrappedFn == IF last.cb # NoCb THEN last.cb ELSE last.fn
WrappedArgs == IF last.cb # NoCb THEN <<last.arg>> ELSE <<>>

\* C11: maybe(None) equals Nothing() and maybe(x) equals Something(x) for every x
\* that is not None; a function adapted by wrap_maybe returns Nothing() whenever
\* the original returns None and Something(x) whenever it returns a non-None x,
\* the original being called once with the same arguments.
C11_Classify ==
    /\ last.op = "maybe" /\ last.arg = None => last.out = Return(Nothing)
    /\ last.op = "maybe" /\ last.arg # None => last.out = Return(Something(last.arg))
    /\ last.op = "wrap_maybe" =>
          /\ last.calls = <<[cb |-> WrappedFn, args |-> WrappedArgs]>>
          /\ Apply(WrappedFn, WrappedArgs) = None => last.out = Return(Nothing)
          /\ Apply(WrappedFn, WrappedArgs) # None =>
                last.out = Return(Something(Apply(WrappedFn, WrappedArgs)))

\* C11's case: an adapted function returned 0, which is false but not None
C11_Witness ==
    /\ last.op = "wrap_maybe"
    /\ last.cb = "ident"
    /\ last.arg = PyInt(0)
    /\ cur = Something(PyInt(0))

\* C12: Maybe.map_or and Maybe.map_or_else always return a Something:
\* Something(v).map_or(f, default) and Something(v).map_or_else(f, default_fn) equal
\* Something(f(v)), Nothing().map_or(f, default) equals Something(default), and
\* Nothing().map_or_else(f, default_fn) equals Something(default_fn()).
C12_MaybeMapOr ==
    /\ LastIs("map_or", "Something") =>
          last.out = Return(Something(Apply(last.cb, <<LastHeld>>)))
    /\ LastIs("map_or_else", "Something") =>
          last.out = Return(Something(Apply(last.cb, <<LastHeld>>)))
    /\ LastIs("map_or", "Nothing") => last.out = Return(Something(last.arg))
    /\ LastIs("map_or_else", "Nothing") =>
          last.out = Return(Something(Apply(last.fn, <<>>)))

\* C12's case: Nothing().map_or(f, None) gave a Something, which holds None
C12_Witness ==
    /\ LastIs("map_or", "Nothing")
    /\ last.arg = None
    /\ cur = Something(None)

\* C13: mapping with the identity is a no-op up to equality: m.map(identity)
\* equals m for every Maybe m, and r.map(identity) and r.map_err(identity) equal r
\* for every Result r, on both variants.
C13_IdentityMap ==
    /\ last.op = "map" /\ last.cb = "ident" /\ IsContainer(last.recv) =>
          last.out = Return(last.recv)
    /\ last.op = "map_err" /\ last.cb = "ident" /\ IsResult(last.recv) =>
          last.out = Return(last.recv)

\* C13's case: map_err with the identity on a Success that holds an exception
C13_Witness ==
    /\ LastIs("map_err", "Success")
    /\ last.cb = "ident"
    /\ LastHeld \in Excs
    /\ cur = last.recv

====
